---- MODULE Spec2Model ----
(***************************************************************************)
(* Nexus Luma AI widget: the <nxl-ai-widget> custom element                *)
(* (src/unnamed/part_000) and the iframe host loader                       *)
(* (src/nxl-iframe-host.js), as state machines.                            *)
(*                                                                         *)
(* One step of a specification is one run-to-completion piece of           *)
(* JavaScript: a public method call, a DOM callback, an event handler up   *)
(* to its first await, or the continuation of a handler after an await.    *)
(***************************************************************************)
EXTENDS Integers, Sequences, FiniteSets, TLC

VARIABLES
    \* ---- element lifecycle (part_000 constructor, connectedCallback, _initVapiClient)
    mounted,        \* this._mounted
    sdkPresent,     \* window.Vapi is defined
    loadPending,    \* _ensureVapi().then/.catch has yet to run: "no", "present" (window.Vapi
                    \* was there, the promise is resolved) or "script" (the injected script
                    \* has neither loaded nor failed)
    vapi,           \* this._vapi: "null" or "client"
    caps,           \* the methods the constructed client exposes
    subscribed,     \* the client notifications a handler was registered for
    wired,          \* the UI click handlers of _initVapiClient are attached
    \* ---- attributes and the host's visual-state flags
    attrTheme, attrPosition, attrOpen,
    hostDark, hostLight, hostPos,
    \* ---- panel
    isOpen,         \* this._isOpen
    panelOpen,      \* panel.classList contains 'open'
    fabActive,      \* fab.classList contains 'active'
    projection,     \* projection.style.opacity
    \* ---- talk
    isConnected, isListening,
    micOn,          \* mic.classList contains 'on'
    status,         \* status.textContent
    fabPulsing,     \* fab.classList contains 'pulsing'
    pendPerm,       \* _toggleMic runs suspended at await getUserMedia
    pendStart,      \* _toggleMic runs suspended at await start/connectToAssistant
    pendStop,       \* _toggleMic runs suspended at await stop
    \* ---- text
    input,          \* textInput.value, a sequence of characters
    transcript,     \* the .msg children of the chat element, in order
    pendingSends,   \* values of _sendText runs suspended at await sendText
    \* ---- observation of the run (not program state)
    expectOpen,     \* left fold of the open/close/toggle calls made so far
    callsOnMounted, \* some open/close/toggle call was made since the mount
    nResolved,      \* number of sendText calls that resolved
    last,           \* the step that ran last: its name, the external call it made, whether it raised
    sinceEnded,     \* call.ended was handled and the microphone control was not activated since
    \* ---- iframe host loader (nxl-iframe-host.js), one entry per mountIframeWidget call
    built,          \* the mounts whose fab, frame and message listener exist
    hostOpen,       \* the closure variable open of each mount
    frameClassOpen, \* the frame's classList contains 'nxl-open'
    fabPulse,       \* the fab's classList contains 'nxl-pulse'
    inbox,          \* message events queued on the window, oldest first
    lastPost,       \* the type of the message each mount posted last ("none": none yet)
    hostLast        \* the loader's step that ran last, and the data of the event it handled

panelVars == <<isOpen, panelOpen, fabActive, projection, expectOpen, callsOnMounted>>
lifeVars  == <<mounted, sdkPresent, loadPending, vapi, caps, subscribed, wired>>
attrVars  == <<attrTheme, attrPosition, attrOpen>>
hostVars  == <<hostDark, hostLight, hostPos>>
talkVars  == <<isConnected, isListening, micOn, fabPulsing, pendPerm, pendStart, pendStop>>
textVars  == <<input, transcript, pendingSends, nResolved>>

widgetVars == <<lifeVars, attrVars, hostVars, panelVars, talkVars, status, textVars, last,
                sinceEnded>>
loaderVars == <<built, hostOpen, frameClassOpen, fabPulse, inbox, lastPost, hostLast>>

----------------------------------------------------------------------------
(* Bounds *)
MaxPending == 2     \* suspended _toggleMic runs at a time
MaxLen     == 2     \* characters in the text input
MaxMsgs    == 2     \* transcript entries plus sends in flight
MaxMounts  == 2     \* mountIframeWidget calls that build a widget
MaxInbox   == 2     \* message events queued on the window

(* Values *)
Mounts == 1..MaxMounts
\* a message event whose data is null or undefined
NoData == [source |-> "<none>", type |-> "<none>", listening |-> FALSE]
Absent == "<absent>"            \* getAttribute() === null
NoElement == "<no element>"     \* this._elements is still {}

ThemeValues    == {"", "dark", "light", "LIGHT", "neon"}
PositionValues == {"bottom-left", "Bottom-Left"}
OpenValues     == {"", "true", "false"}

Capabilities == {"on", "start", "connectToAssistant", "stop", "sendText"}
ClientEvents == <<"call.started", "call.ended", "speech.started", "speech.ended">>

\* String.prototype.toLowerCase on the attribute values above
ToLowerCase(s) ==
    CASE s = "LIGHT" -> "light"
      [] s = "Bottom-Left" -> "bottom-left"
      [] OTHER -> s

\* getAttribute(name) || dflt
OrDefault(v, dflt) == IF v = Absent \/ v = "" THEN dflt ELSE v

\* this.hasAttribute('open') && this.getAttribute('open') !== 'false'
OpenRequested(v) == v # Absent /\ v # "false"

\* The end of a step of the element: what it was, and the loader, which lives
\* in another page, is left alone.
Done(op, fx, threw) ==
    /\ last' = [op |-> op, fx |-> fx, threw |-> threw]
    /\ sinceEnded' = CASE op = "call.ended" -> TRUE
                        [] op \in {"click mic", "_toggleMic"} -> FALSE
                        [] OTHER -> sinceEnded
    /\ UNCHANGED loaderVars

----------------------------------------------------------------------------
(* Public API: open(), close(), toggle().  els: this._elements is filled   *)
(* (after _render); otherwise reading .classList of undefined raises       *)
(* after _isOpen was assigned.                                              *)

open(els) ==
    /\ isOpen' = TRUE
    /\ IF els
         THEN panelOpen' = TRUE /\ fabActive' = TRUE /\ projection' = "1"
         ELSE UNCHANGED <<panelOpen, fabActive, projection>>

close_KeepsFabActive(els) ==
    /\ isOpen' = FALSE
    /\ IF els
         THEN panelOpen' = FALSE /\ projection' = "0" /\ UNCHANGED fabActive
         ELSE UNCHANGED <<panelOpen, fabActive, projection>>

close(els) ==
    /\ isOpen' = FALSE
    /\ IF els
         THEN panelOpen' = FALSE /\ fabActive' = FALSE /\ projection' = "0"
         ELSE UNCHANGED <<panelOpen, fabActive, projection>>

toggle(els) == IF isOpen THEN close(els) ELSE open(els)

\* The fold step of a call sequence: open -> true, close -> false, toggle -> negation
FoldStep(op, b) ==
    CASE op = "open" -> TRUE
      [] op = "close" -> FALSE
      [] op = "toggle" -> ~b

Observe(op, onMounted) ==
    /\ expectOpen' = FoldStep(op, expectOpen)
    /\ callsOnMounted' = (callsOnMounted \/ onMounted)

\* A call of one of the three methods, from any caller
Call(op, els) ==
    /\ CASE op = "open" -> open(els)
         [] op = "close" -> close(els)
         [] op = "toggle" -> toggle(els)
    /\ Observe(op, els)

----------------------------------------------------------------------------
(* _applyTheme, _applyPosition *)

_applyTheme(theme) ==
    /\ hostDark' = (ToLowerCase(OrDefault(theme, "dark")) = "dark")
    /\ hostLight' = (ToLowerCase(OrDefault(theme, "dark")) = "light")

_applyPosition(pos) ==
    hostPos' = ToLowerCase(OrDefault(pos, "bottom-right"))

----------------------------------------------------------------------------
(* attributeChangedCallback(name, oldV, newV): the attribute already holds  *)
(* newV when the callback runs.  newV = Absent is removeAttribute, which    *)
(* calls back only when the attribute was there.                            *)

attributeChangedCallback_Unguarded(name, newV) ==
    /\ CASE name = "open" ->
              /\ Call(IF OpenRequested(newV) THEN "open" ELSE "close", mounted)
              /\ UNCHANGED hostVars
         [] name = "theme" ->
              /\ _applyTheme(newV)
              /\ UNCHANGED <<hostPos, panelVars>>
         [] name = "position" ->
              /\ _applyPosition(newV)
              /\ UNCHANGED <<hostDark, hostLight, panelVars>>
    /\ Done("attributeChangedCallback", "none", FALSE)

attributeChangedCallback(name, newV) ==
    /\ IF ~mounted
         THEN UNCHANGED <<hostVars, panelVars>>
         ELSE CASE name = "open" ->
                     /\ Call(IF OpenRequested(newV) THEN "open" ELSE "close", TRUE)
                     /\ UNCHANGED hostVars
                [] name = "theme" ->
                     /\ _applyTheme(newV)
                     /\ UNCHANGED <<hostPos, panelVars>>
                [] name = "position" ->
                     /\ _applyPosition(newV)
                     /\ UNCHANGED <<hostDark, hostLight, panelVars>>
    /\ Done("attributeChangedCallback", "none", FALSE)

SetAttribute ==
    /\ \/ \E v \in ThemeValues \cup {Absent} :
            /\ ~(attrTheme = Absent /\ v = Absent)
            /\ attrTheme' = v
            /\ UNCHANGED <<attrPosition, attrOpen>>
            /\ attributeChangedCallback("theme", v)
       \/ \E v \in PositionValues \cup {Absent} :
            /\ ~(attrPosition = Absent /\ v = Absent)
            /\ attrPosition' = v
            /\ UNCHANGED <<attrTheme, attrOpen>>
            /\ attributeChangedCallback("position", v)
       \/ \E v \in OpenValues \cup {Absent} :
            /\ ~(attrOpen = Absent /\ v = Absent)
            /\ attrOpen' = v
            /\ UNCHANGED <<attrTheme, attrPosition>>
            /\ attributeChangedCallback("open", v)
    /\ UNCHANGED <<lifeVars, talkVars, status, textVars>>

----------------------------------------------------------------------------
(* connectedCallback: a no-op once mounted; otherwise _render, _applyTheme, *)
(* _applyPosition, the start of _ensureVapi().then(...).catch(...), and     *)
(* open() when the open attribute asks for it.                              *)

connectedCallback ==
    /\ IF mounted
         THEN UNCHANGED <<lifeVars, hostVars, panelVars, status>>
         ELSE /\ mounted' = TRUE
              /\ status' = "Idle"
              /\ _applyTheme(attrTheme)
              /\ _applyPosition(attrPosition)
              /\ loadPending' = IF sdkPresent THEN "present" ELSE "script"
              /\ UNCHANGED <<sdkPresent, vapi, caps, subscribed, wired>>
              /\ IF OpenRequested(attrOpen)
                   THEN Call("open", TRUE)
                   ELSE UNCHANGED panelVars
    /\ Done("connectedCallback", "none", FALSE)
    /\ UNCHANGED <<attrVars, talkVars, textVars>>

(* The page's own <script> tag for the SDK defines window.Vapi. *)
PageLoadsSdk ==
    /\ ~sdkPresent
    /\ sdkPresent' = TRUE
    /\ Done("page loads SDK", "none", FALSE)
    /\ UNCHANGED <<mounted, loadPending, vapi, caps, subscribed, wired,
                   attrVars, hostVars, panelVars, talkVars, status, textVars>>

(* The three public methods called by the page. *)
ApiCall ==
    \E op \in {"open", "close", "toggle"} :
        /\ Call(op, mounted)
        /\ Done(op, "none", ~mounted)
        /\ UNCHANGED <<lifeVars, attrVars, hostVars, talkVars, status, textVars>>

----------------------------------------------------------------------------
(* _ensureVapi and _initVapiClient *)

\* The registered prefix of the four on(...) calls
Registered(k) == {ClientEvents[i] : i \in 1..k}

\* The clients the constructor may return, by the methods they expose: the
\* current SDK, an older SDK (connectToAssistant, no sendText), clients
\* lacking stop, lacking both start methods, lacking on, and a bare object
ClientShapes ==
    {{"on", "start", "connectToAssistant", "stop", "sendText"},
     {"on", "connectToAssistant", "stop"},
     {"on", "start", "sendText"},
     {"on", "stop", "sendText"},
     {"start", "stop"},
     {}}

\* new window.Vapi(publicKey) raises; or it returns a client and every
\* on(...) it has succeeds; or the (k+1)-th on(...) raises
InitOutcomes ==
    {[kind |-> "ctorThrows", caps |-> {}, k |-> 0]}
    \cup {[kind |-> "ok", caps |-> c, k |-> IF "on" \in c THEN 4 ELSE 0] : c \in ClientShapes}
    \cup {[kind |-> "onThrows", caps |-> c, k |-> k] :
            c \in {d \in ClientShapes : "on" \in d}, k \in 0..3}

_initVapiClient(o) ==
    IF ~sdkPresent'
      THEN UNCHANGED <<vapi, caps, subscribed, wired, status>>
      ELSE CASE o.kind = "ctorThrows" ->
                  /\ status' = "Init error"
                  /\ UNCHANGED <<vapi, caps, subscribed, wired>>
             [] o.kind = "onThrows" ->
                  /\ vapi' = "client"
                  /\ caps' = o.caps
                  /\ subscribed' = Registered(o.k)
                  /\ status' = "Init error"
                  /\ UNCHANGED wired
             [] o.kind = "ok" ->
                  /\ vapi' = "client"
                  /\ caps' = o.caps
                  /\ subscribed' = Registered(o.k)
                  /\ wired' = TRUE
                  /\ UNCHANGED status

\* _ensureVapi() resolved (window.Vapi was there, or the script loaded, with
\* or without defining window.Vapi): .then runs _initVapiClient
EnsureResolved ==
    /\ loadPending # "no"
    /\ loadPending' = "no"
    /\ sdkPresent' \in (IF sdkPresent THEN {TRUE} ELSE {TRUE, FALSE})
    /\ \E o \in InitOutcomes : _initVapiClient(o)
    /\ Done("_initVapiClient", IF sdkPresent' THEN "new Vapi" ELSE "none", FALSE)
    /\ UNCHANGED <<mounted, attrVars, hostVars, panelVars, talkVars, textVars>>

\* the script's onerror: .catch sets the status
EnsureRejected ==
    /\ loadPending = "script"
    /\ loadPending' = "no"
    /\ status' = "SDK load failed"
    /\ Done("SDK load failed", "none", FALSE)
    /\ UNCHANGED <<mounted, sdkPresent, vapi, caps, subscribed, wired,
                   attrVars, hostVars, panelVars, talkVars, textVars>>

----------------------------------------------------------------------------
(* Clicks on the fab and on the close control: their listeners exist only   *)
(* once _initVapiClient attached them.                                      *)

ClickFab ==
    /\ IF wired THEN Call("toggle", TRUE) ELSE UNCHANGED panelVars
    /\ Done("click fab", "none", FALSE)
    /\ UNCHANGED <<lifeVars, attrVars, hostVars, talkVars, status, textVars>>

ClickClose ==
    /\ IF wired THEN Call("close", TRUE) ELSE UNCHANGED panelVars
    /\ Done("click close", "none", FALSE)
    /\ UNCHANGED <<lifeVars, attrVars, hostVars, talkVars, status, textVars>>

----------------------------------------------------------------------------
(* The element after its constructor ran. *)

Init ==
    /\ mounted = FALSE
    /\ sdkPresent = FALSE
    /\ loadPending = "no"
    /\ vapi = "null"
    /\ caps = {}
    /\ subscribed = {}
    /\ wired = FALSE
    /\ attrTheme = Absent /\ attrPosition = Absent /\ attrOpen = Absent
    /\ hostDark = FALSE /\ hostLight = FALSE /\ hostPos = Absent
    /\ isOpen = FALSE /\ panelOpen = FALSE /\ fabActive = FALSE /\ projection = ""
    /\ isConnected = FALSE /\ isListening = FALSE /\ micOn = FALSE
    /\ status = NoElement
    /\ fabPulsing = FALSE
    /\ pendPerm = 0 /\ pendStart = 0 /\ pendStop = 0
    /\ input = <<>> /\ transcript = <<>> /\ pendingSends = <<>>
    /\ expectOpen = FALSE /\ callsOnMounted = FALSE /\ nResolved = 0
    /\ last = [op |-> "constructor", fx |-> "none", threw |-> FALSE]
    /\ sinceEnded = FALSE
    /\ built = {}
    /\ hostOpen = [m \in Mounts |-> FALSE]
    /\ frameClassOpen = [m \in Mounts |-> FALSE]
    /\ fabPulse = [m \in Mounts |-> FALSE]
    /\ inbox = <<>>
    /\ lastPost = [m \in Mounts |-> "none"]
    /\ hostLast = [op |-> "load", data |-> NoData]

(* The panel and its attributes: the page sets attributes, attaches the     *)
(* element, calls the public methods; the user clicks the fab and the       *)
(* close control; the SDK loads or fails.                                   *)
Next ==
    \/ SetAttribute
    \/ PageLoadsSdk
    \/ connectedCallback
    \/ ApiCall
    \/ EnsureResolved
    \/ EnsureRejected
    \/ ClickFab
    \/ ClickClose

vars == <<widgetVars, loaderVars>>

Spec == Init /\ [][Next]_vars

----------------------------------------------------------------------------
(* _toggleMic(assistantId), an async function: the part up to the first     *)
(* await runs in the caller's step; each await is a suspension that the     *)
(* environment ends by resolving or rejecting the awaited promise.          *)

Suspended == pendPerm + pendStart + pendStop

setListening(on, text) ==
    /\ isListening' = on
    /\ micOn' = on
    /\ status' = text

\* the function past its guard: this._vapi is the client
ToggleWithClient(label) ==
    IF ~isListening
        THEN \* navigator.mediaDevices.getUserMedia({audio: true})
             \/ /\ Suspended < MaxPending
                /\ pendPerm' = pendPerm + 1
                /\ UNCHANGED <<isConnected, isListening, micOn, fabPulsing,
                               pendStart, pendStop, status>>
                /\ Done(label, "getUserMedia", FALSE)
             \* navigator.mediaDevices is undefined: the TypeError is caught
             \/ /\ status' = "Mic blocked"
                /\ UNCHANGED talkVars
                /\ Done(label, "none", FALSE)
        ELSE IF "stop" \in caps
          THEN \* await this._vapi.stop()
               \/ /\ Suspended < MaxPending
                  /\ pendStop' = pendStop + 1
                  /\ UNCHANGED <<isConnected, isListening, micOn, fabPulsing,
                                 pendPerm, pendStart, status>>
                  /\ Done(label, "stop", FALSE)
               \* stop() raises at once: caught and logged
               \/ /\ UNCHANGED <<talkVars, status>>
                  /\ Done(label, "stop", FALSE)
          ELSE /\ setListening(FALSE, "Idle")
               /\ UNCHANGED <<isConnected, fabPulsing, pendPerm, pendStart, pendStop>>
               /\ Done(label, "none", FALSE)

_toggleMic_Unguarded(label) == ToggleWithClient(label)

_toggleMic(label) ==
    IF vapi = "null"
      THEN /\ UNCHANGED <<talkVars, status>>
           /\ Done(label, "none", FALSE)
      ELSE ToggleWithClient(label)

talkFrame == UNCHANGED <<lifeVars, attrVars, hostVars, panelVars, textVars>>

\* the mic control's click listener, attached by _initVapiClient
ClickMic ==
    /\ IF wired
         THEN _toggleMic("click mic")
         ELSE UNCHANGED <<talkVars, status>> /\ Done("click mic", "none", FALSE)
    /\ talkFrame

\* the method called on the element
InvokeToggleMic ==
    /\ _toggleMic("_toggleMic")
    /\ talkFrame

\* getUserMedia resolved: start, or the older connectToAssistant, or neither
PermissionGranted ==
    /\ pendPerm > 0
    /\ IF "start" \in caps \/ "connectToAssistant" \in caps
         THEN LET fx == IF "start" \in caps THEN "start" ELSE "connectToAssistant" IN
              \/ /\ pendPerm' = pendPerm - 1
                 /\ pendStart' = pendStart + 1
                 /\ UNCHANGED <<isConnected, isListening, micOn, fabPulsing, pendStop, status>>
                 /\ Done("getUserMedia resolved", fx, FALSE)
              \* the call raises at once: caught
              \/ /\ pendPerm' = pendPerm - 1
                 /\ status' = "Mic blocked"
                 /\ UNCHANGED <<isConnected, isListening, micOn, fabPulsing, pendStart, pendStop>>
                 /\ Done("getUserMedia resolved", fx, FALSE)
         ELSE /\ pendPerm' = pendPerm - 1
              /\ setListening(TRUE, "Listening...")
              /\ UNCHANGED <<isConnected, fabPulsing, pendStart, pendStop>>
              /\ Done("getUserMedia resolved", "none", FALSE)
    /\ talkFrame

PermissionDenied_FallsThrough ==
    /\ pendPerm > 0
    /\ pendPerm' = pendPerm - 1
    /\ setListening(TRUE, "Listening...")
    /\ UNCHANGED <<isConnected, fabPulsing, pendStart, pendStop>>
    /\ Done("getUserMedia rejected", "none", FALSE)
    /\ talkFrame

PermissionDenied ==
    /\ pendPerm > 0
    /\ pendPerm' = pendPerm - 1
    /\ status' = "Mic blocked"
    /\ UNCHANGED <<isConnected, isListening, micOn, fabPulsing, pendStart, pendStop>>
    /\ Done("getUserMedia rejected", "none", FALSE)
    /\ talkFrame

StartResolved_StatusStale ==
    /\ pendStart > 0
    /\ pendStart' = pendStart - 1
    /\ isListening' = TRUE
    /\ micOn' = TRUE
    /\ UNCHANGED <<isConnected, fabPulsing, pendPerm, pendStop, status>>
    /\ Done("start resolved", "none", FALSE)
    /\ talkFrame

StartResolved ==
    /\ pendStart > 0
    /\ pendStart' = pendStart - 1
    /\ setListening(TRUE, "Listening...")
    /\ UNCHANGED <<isConnected, fabPulsing, pendPerm, pendStop>>
    /\ Done("start resolved", "none", FALSE)
    /\ talkFrame

StartRejected ==
    /\ pendStart > 0
    /\ pendStart' = pendStart - 1
    /\ status' = "Mic blocked"
    /\ UNCHANGED <<isConnected, isListening, micOn, fabPulsing, pendPerm, pendStop>>
    /\ Done("start rejected", "none", FALSE)
    /\ talkFrame

StopResolved ==
    /\ pendStop > 0
    /\ pendStop' = pendStop - 1
    /\ setListening(FALSE, "Idle")
    /\ UNCHANGED <<isConnected, fabPulsing, pendPerm, pendStart>>
    /\ Done("stop resolved", "none", FALSE)
    /\ talkFrame

StopRejected ==
    /\ pendStop > 0
    /\ pendStop' = pendStop - 1
    /\ UNCHANGED <<isConnected, isListening, micOn, fabPulsing, pendPerm, pendStart, status>>
    /\ Done("stop rejected", "none", FALSE)
    /\ talkFrame

(* The client's notifications, delivered to the handlers _initVapiClient    *)
(* registered; the client may deliver them at any time.                     *)

OnCallStarted ==
    /\ "call.started" \in subscribed
    /\ status' = "Connected"
    /\ isConnected' = TRUE
    /\ UNCHANGED <<isListening, micOn, fabPulsing, pendPerm, pendStart, pendStop>>
    /\ Done("call.started", "none", FALSE)
    /\ talkFrame

OnCallEnded_KeepsMicOn ==
    /\ "call.ended" \in subscribed
    /\ status' = "Disconnected"
    /\ isConnected' = FALSE
    /\ isListening' = FALSE
    /\ UNCHANGED <<micOn, fabPulsing, pendPerm, pendStart, pendStop>>
    /\ Done("call.ended", "none", FALSE)
    /\ talkFrame

OnCallEnded ==
    /\ "call.ended" \in subscribed
    /\ status' = "Disconnected"
    /\ isConnected' = FALSE
    /\ isListening' = FALSE
    /\ micOn' = FALSE
    /\ UNCHANGED <<fabPulsing, pendPerm, pendStart, pendStop>>
    /\ Done("call.ended", "none", FALSE)
    /\ talkFrame

\* speech.started / speech.ended: _pulse(on)
OnSpeech ==
    \E on \in BOOLEAN :
        /\ (IF on THEN "speech.started" ELSE "speech.ended") \in subscribed
        /\ fabPulsing' = on
        /\ UNCHANGED <<isConnected, isListening, micOn, pendPerm, pendStart, pendStop, status>>
        /\ Done(IF on THEN "speech.started" ELSE "speech.ended", "none", FALSE)
        /\ talkFrame

(* Talking: the element is attached, the SDK loads or fails, the user       *)
(* clicks the fab, the close control and the microphone, the page calls     *)
(* _toggleMic, the prompts and the client answer.                           *)
TalkNext ==
    \/ PageLoadsSdk
    \/ connectedCallback
    \/ EnsureResolved
    \/ EnsureRejected
    \/ ClickFab
    \/ ClickClose
    \/ ClickMic
    \/ InvokeToggleMic
    \/ PermissionGranted
    \/ PermissionDenied
    \/ StartResolved
    \/ StartRejected
    \/ StopResolved
    \/ StopRejected
    \/ OnCallStarted
    \/ OnCallEnded
    \/ OnSpeech

TalkSpec == Init /\ [][TalkNext]_vars

----------------------------------------------------------------------------
(* Text: the input field, _sendText (async) and _appendMsg.  A string is a  *)
(* sequence of the characters " " and "a".                                  *)

Chars == {" ", "a"}

RECURSIVE StringsOfLength(_)
StringsOfLength(n) ==
    IF n = 0 THEN {<<>>}
    ELSE {Append(t, c) : t \in StringsOfLength(n - 1), c \in Chars}

Strings == UNION {StringsOfLength(n) : n \in 0..MaxLen}

\* String.prototype.trim
RECURSIVE TrimStart(_)
TrimStart(t) == IF t # <<>> /\ Head(t) = " " THEN TrimStart(Tail(t)) ELSE t

RECURSIVE TrimEnd(_)
TrimEnd(t) ==
    IF t # <<>> /\ t[Len(t)] = " " THEN TrimEnd(SubSeq(t, 1, Len(t) - 1)) ELSE t

Trim_Identity(t) == t

Trim(t) == TrimEnd(TrimStart(t))

RemoveAt(q, i) == SubSeq(q, 1, i - 1) \o SubSeq(q, i + 1, Len(q))

_appendMsg(type, content) ==
    transcript' = Append(transcript, [role |-> type, text |-> content])

textFrame == UNCHANGED <<lifeVars, attrVars, hostVars, panelVars, talkVars, status>>

\* the user edits the input field
TypeText ==
    /\ mounted
    /\ \E t \in Strings : input' = t
    /\ UNCHANGED <<transcript, pendingSends, nResolved>>
    /\ Done("type", "none", FALSE)
    /\ textFrame

_sendText(label) ==
    IF ~mounted
      THEN \* this._elements.textInput is undefined: the promise rejects
           /\ UNCHANGED textVars
           /\ Done(label, "none", TRUE)
      ELSE LET value == Trim(input) IN
           IF value = <<>>
             THEN /\ UNCHANGED textVars
                  /\ Done(label, "none", FALSE)
             ELSE IF vapi # "null" /\ "sendText" \in caps
               THEN \* await this._vapi.sendText(value)
                    \/ /\ Len(transcript) + Len(pendingSends) < MaxMsgs
                       /\ pendingSends' = Append(pendingSends, value)
                       /\ UNCHANGED <<input, transcript, nResolved>>
                       /\ Done(label, "sendText", FALSE)
                    \* sendText raises at once: caught and logged
                    \/ /\ UNCHANGED textVars
                       /\ Done(label, "sendText", FALSE)
               ELSE /\ UNCHANGED textVars
                    /\ Done(label, "none", FALSE)

\* the send button's click listener and the input's Enter key listener
ClickSend ==
    /\ \E label \in {"click send", "keydown Enter"} :
         IF wired
           THEN _sendText(label)
           ELSE UNCHANGED textVars /\ Done(label, "none", FALSE)
    /\ textFrame

\* the method called on the element
InvokeSendText ==
    /\ _sendText("_sendText")
    /\ textFrame

SendRejected_Appends ==
    \E i \in 1..Len(pendingSends) :
        /\ pendingSends' = RemoveAt(pendingSends, i)
        /\ _appendMsg("user", pendingSends[i])
        /\ UNCHANGED <<input, nResolved>>
        /\ Done("sendText rejected", "none", FALSE)
        /\ textFrame

\* a sendText promise resolved: the run appends the value it sent and clears
\* the input
SendResolved ==
    \E i \in 1..Len(pendingSends) :
        /\ pendingSends' = RemoveAt(pendingSends, i)
        /\ _appendMsg("user", pendingSends[i])
        /\ input' = <<>>
        /\ nResolved' = nResolved + 1
        /\ Done("sendText resolved", "none", FALSE)
        /\ textFrame

SendRejected ==
    \E i \in 1..Len(pendingSends) :
        /\ pendingSends' = RemoveAt(pendingSends, i)
        /\ UNCHANGED <<input, transcript, nResolved>>
        /\ Done("sendText rejected", "none", FALSE)
        /\ textFrame

(* Text: the element is attached, the SDK loads or fails, the user types    *)
(* and sends, the page calls _sendText, the client answers.                 *)
TextNext ==
    \/ PageLoadsSdk
    \/ connectedCallback
    \/ EnsureResolved
    \/ EnsureRejected
    \/ TypeText
    \/ ClickSend
    \/ InvokeSendText
    \/ SendResolved
    \/ SendRejected

TextSpec == Init /\ [][TextNext]_vars

----------------------------------------------------------------------------
(* The iframe host loader: mountIframeWidget(opts), its toggle, its message *)
(* listener and the handle it returns.                                      *)

\* the data of a message event: {source, type, payload: {listening}}
Data(source, type, listening) ==
    [source |-> source, type |-> type, listening |-> listening]

\* what the frame, or any other script, may post to the window
Postable ==
    {NoData,
     Data("NXL_IFRAME", "close", FALSE),
     Data("NXL_IFRAME", "ready", FALSE),
     Data("NXL_IFRAME", "state", TRUE),
     Data("NXL_IFRAME", "state", FALSE),
     Data("other", "close", FALSE),
     Data("other", "state", TRUE)}

HostDid(op, d) == hostLast' = [op |-> op, data |-> d]

\* toggle() of mount m, as the values it leaves: open = !open, the class
\* follows open, one message is posted to the window
toggled_PostsBeforeFlip(m) ==
    [open  |-> ~hostOpen[m],
     frame |-> ~hostOpen[m],
     pulse |-> fabPulse[m],
     posts |-> <<IF hostOpen[m] THEN "open" ELSE "close">>]

toggled(m) ==
    [open  |-> ~hostOpen[m],
     frame |-> ~hostOpen[m],
     pulse |-> fabPulse[m],
     posts |-> <<IF ~hostOpen[m] THEN "open" ELSE "close">>]

untouched(m) ==
    [open |-> hostOpen[m], frame |-> frameClassOpen[m], pulse |-> fabPulse[m], posts |-> <<>>]

listener_AnySource(m, d) ==
    IF d = NoData
      THEN untouched(m)
      ELSE LET t == IF d.type = "close" /\ hostOpen[m] THEN toggled(m) ELSE untouched(m) IN
           [t EXCEPT !.pulse = IF d.type = "state" THEN d.listening ELSE fabPulse[m]]

listener_ClosesWhenClosed(m, d) ==
    IF d = NoData \/ d.source # "NXL_IFRAME"
      THEN untouched(m)
      ELSE LET t == IF d.type = "close" THEN toggled(m) ELSE untouched(m) IN
           [t EXCEPT !.pulse = IF d.type = "state" THEN d.listening ELSE fabPulse[m]]

\* the message listener of mount m on the event data d
listener(m, d) ==
    IF d = NoData \/ d.source # "NXL_IFRAME"
      THEN untouched(m)
      ELSE LET t == IF d.type = "close" /\ hostOpen[m] THEN toggled(m) ELSE untouched(m) IN
           [t EXCEPT !.pulse = IF d.type = "state" THEN d.listening ELSE fabPulse[m]]

RECURSIVE PostsFrom(_, _)
PostsFrom(r, m) ==
    IF m > MaxMounts THEN <<>>
    ELSE (IF m \in DOMAIN r THEN r[m].posts ELSE <<>>) \o PostsFrom(r, m + 1)

\* The loader after the mounts of r (mount -> values left) ran, queue being
\* the message events still waiting
Apply(r, queue) ==
    LET posts == PostsFrom(r, 1) IN
    /\ Len(queue) + Len(posts) <= MaxInbox
    /\ hostOpen' = [m \in Mounts |-> IF m \in DOMAIN r THEN r[m].open ELSE hostOpen[m]]
    /\ frameClassOpen' = [m \in Mounts |-> IF m \in DOMAIN r THEN r[m].frame ELSE frameClassOpen[m]]
    /\ fabPulse' = [m \in Mounts |-> IF m \in DOMAIN r THEN r[m].pulse ELSE fabPulse[m]]
    /\ lastPost' = [m \in Mounts |-> IF m \in DOMAIN r /\ r[m].posts # <<>>
                                       THEN r[m].posts[Len(r[m].posts)] ELSE lastPost[m]]
    /\ inbox' = queue \o [i \in 1..Len(posts) |-> Data("NXL_HOST", posts[i], FALSE)]

\* the options mountIframeWidget may be called with, by what they hold:
\* none at all, or a record with or without mount, publicKey, assistantId
MountOptions ==
    {[given |-> "undefined",            mount |-> FALSE, publicKey |-> FALSE, assistantId |-> FALSE],
     [given |-> "keys",                 mount |-> FALSE, publicKey |-> TRUE,  assistantId |-> TRUE],
     [given |-> "mount",                mount |-> TRUE,  publicKey |-> FALSE, assistantId |-> FALSE],
     [given |-> "mount, publicKey",     mount |-> TRUE,  publicKey |-> TRUE,  assistantId |-> FALSE],
     [given |-> "mount, assistantId",   mount |-> TRUE,  publicKey |-> FALSE, assistantId |-> TRUE],
     [given |-> "mount, keys",          mount |-> TRUE,  publicKey |-> TRUE,  assistantId |-> TRUE]}

\* the step of a mountIframeWidget(opts) call: how it ended, and its options
MountDid(op, opts) == HostDid(op, Data("opts", opts.given, FALSE))

mountIframeWidget_KeysRequired ==
    /\ \E opts \in MountOptions :
         IF ~opts.mount \/ ~opts.publicKey \/ ~opts.assistantId
           THEN /\ MountDid("mount raised", opts)
                /\ UNCHANGED built
           ELSE /\ Cardinality(built) < MaxMounts
                /\ built' = built \cup {Cardinality(built) + 1}
                /\ MountDid("mount", opts)
    /\ UNCHANGED <<hostOpen, frameClassOpen, fabPulse, lastPost, inbox, widgetVars>>

\* mountIframeWidget(opts): raises without opts.mount; otherwise warns when a
\* key is missing, builds the fab and the frame, registers the click and
\* message listeners and returns the handle
mountIframeWidget ==
    /\ \E opts \in MountOptions :
         IF ~opts.mount
           THEN /\ MountDid("mount raised", opts)
                /\ UNCHANGED built
           ELSE /\ Cardinality(built) < MaxMounts
                /\ built' = built \cup {Cardinality(built) + 1}
                /\ MountDid(IF ~opts.publicKey \/ ~opts.assistantId
                              THEN "mount warned" ELSE "mount", opts)
    /\ UNCHANGED <<hostOpen, frameClassOpen, fabPulse, lastPost, inbox, widgetVars>>

\* a click on the fab of mount m: toggle
ClickHostFab ==
    \E m \in built :
        /\ Apply((m :> toggled(m)), inbox)
        /\ HostDid("click", NoData)
        /\ UNCHANGED <<built, widgetVars>>

\* the handle's open() and close()
HandleOpen_AlwaysToggles ==
    \E m \in built :
        /\ Apply((m :> toggled(m)), inbox)
        /\ HostDid("handle.open", NoData)
        /\ UNCHANGED <<built, widgetVars>>

HandleOpen ==
    \E m \in built :
        /\ Apply((m :> IF ~hostOpen[m] THEN toggled(m) ELSE untouched(m)), inbox)
        /\ HostDid("handle.open", NoData)
        /\ UNCHANGED <<built, widgetVars>>

HandleClose ==
    \E m \in built :
        /\ Apply((m :> IF hostOpen[m] THEN toggled(m) ELSE untouched(m)), inbox)
        /\ HostDid("handle.close", NoData)
        /\ UNCHANGED <<built, widgetVars>>

\* the handle's sendText(t): one 'sendText' message is posted to the frame's
\* own window, which is not the window the loader listens on
HandleSendText ==
    \E m \in built :
        /\ HostDid("handle.sendText", Data("NXL_HOST", "sendText", FALSE))
        /\ UNCHANGED <<built, hostOpen, frameClassOpen, fabPulse, lastPost, inbox, widgetVars>>

\* the frame, or any script of the page, posts a message to the window
PostMessage ==
    /\ Len(inbox) < MaxInbox
    /\ \E d \in Postable : inbox' = Append(inbox, d)
    /\ HostDid("postMessage", NoData)
    /\ UNCHANGED <<built, hostOpen, frameClassOpen, fabPulse, lastPost, widgetVars>>

Deliver_FirstListenerOnly ==
    /\ inbox # <<>>
    /\ Apply([m \in built \cap {1} |-> listener(m, Head(inbox))], Tail(inbox))
    /\ HostDid("message", Head(inbox))
    /\ UNCHANGED <<built, widgetVars>>

\* the oldest message event is dispatched: every mount's listener runs, in
\* the order the mounts registered them
Deliver ==
    /\ inbox # <<>>
    /\ Apply([m \in built |-> listener(m, Head(inbox))], Tail(inbox))
    /\ HostDid("message", Head(inbox))
    /\ UNCHANGED <<built, widgetVars>>

LoaderNext ==
    \/ mountIframeWidget
    \/ ClickHostFab
    \/ HandleOpen
    \/ HandleClose
    \/ HandleSendText
    \/ PostMessage
    \/ Deliver

LoaderSpec == Init /\ [][LoaderNext]_vars

----------------------------------------------------------------------------
(* Properties *)

\* C1: after any sequence of open()/close()/toggle() calls, isOpen is the
\* fold of the sequence (open -> true, close -> false, toggle -> negation),
\* and once a call was made on the mounted element the panel's 'open' class
\* and the fab's 'active' class mirror isOpen.
C1_OpenFlagIsFold ==
    /\ isOpen = expectOpen
    /\ (mounted /\ callsOnMounted) => (panelOpen = isOpen /\ fabActive = isOpen)

\* a toggle() on the mounted element that closed a panel opened earlier
C1_Witness ==
    /\ mounted /\ callsOnMounted
    /\ last.op = "toggle"
    /\ ~isOpen /\ ~panelOpen /\ ~fabActive /\ projection = "0"

\* C2: open(), close() and toggle() never raise, in whatever lifecycle state
\* they are called, and isOpen has its new value when they return.
C2_AlwaysSucceed ==
    last.op \in {"open", "close", "toggle"} => (~last.threw /\ isOpen = expectOpen)

\* What the host's flags are for the current attribute values
ExpectDark  == attrTheme \in {Absent, "", "dark"}
ExpectLight == attrTheme \in {"light", "LIGHT"}
ExpectPos   == IF attrPosition \in {"bottom-left", "Bottom-Left"}
                 THEN "bottom-left" ELSE "bottom-right"

\* C4 as stated: the host's flags follow theme/position on the mounted
\* element, and a mount shows nothing of the attribute changes made before
\* it: the element mounts dark, bottom-right and closed.
C4_ChangesBeforeMountLeaveNoEffect ==
    /\ [](mounted => (hostDark = ExpectDark /\ hostLight = ExpectLight /\ hostPos = ExpectPos))
    /\ [][(~mounted /\ mounted') =>
            (hostDark' /\ ~hostLight' /\ hostPos' = "bottom-right" /\ ~panelOpen')]_vars

\* C4 amended: on the mounted element the host's flags always are those of
\* the current theme and position; before the mount an attribute change
\* changes no flag and neither the panel; the mount applies the values the
\* attributes hold at that moment, and opens the panel when the open
\* attribute is there and not 'false'.
C4_FlagsFollowAttributes ==
    /\ [](mounted => (hostDark = ExpectDark /\ hostLight = ExpectLight /\ hostPos = ExpectPos))
    /\ [](~mounted => (~hostDark /\ ~hostLight /\ hostPos = Absent /\ ~panelOpen /\ ~fabActive))
    /\ [][(~mounted /\ last'.op = "attributeChangedCallback") =>
            UNCHANGED <<hostVars, panelVars>>]_vars
    /\ [][(~mounted /\ mounted') => (panelOpen' = OpenRequested(attrOpen))]_vars

\* the theme was changed on the mounted element and the light flag shows it
C4_Witness ==
    /\ mounted
    /\ last.op = "attributeChangedCallback"
    /\ attrTheme = "LIGHT" /\ hostLight /\ ~hostDark
    /\ attrPosition = "Bottom-Left" /\ hostPos = "bottom-left"

\* Degraded: the script failed to load, or constructing the client raised
Degraded ==
    /\ mounted /\ loadPending = "no" /\ vapi = "null"
    /\ status \in {"SDK load failed", "Init error"}

\* C3: in Degraded a click on the fab toggles isOpen, a click on the close
\* control sets isOpen to false, and clicks on the microphone and send
\* controls change nothing.
C3_DegradedStaysInteractive ==
    [][Degraded =>
         /\ (last'.op = "click fab" => isOpen' = ~isOpen)
         /\ (last'.op = "click close" => ~isOpen')
         /\ (last'.op \in {"click mic", "click send", "keydown Enter"} =>
               UNCHANGED <<panelVars, talkVars, status, textVars>>)]_vars

\* C5 as stated: a fab click on the ready element leaves the panel with the
\* 'open' class, and once start has resolved and call.started was delivered,
\* in whichever order, the element listens and the status reads
\* 'Listening...'.
C5_ListeningWhateverTheOrder ==
    /\ (wired /\ last.op = "click fab" /\ isOpen) => panelOpen
    /\ (wired /\ "start" \in caps /\ isOpen /\ isListening /\ isConnected
          /\ last.op \in {"start resolved", "call.started"})
         => status = "Listening..."

\* C5 amended: a fab click on the closed, ready element makes isOpen true
\* with the panel's 'open' class; the step in which start resolves makes
\* isListening true, the mic 'on' and the status 'Listening...'; a
\* call.started notification leaves isListening as it is and makes the
\* status 'Connected', so the status reads 'Listening...' afterwards only
\* when call.started came before start resolved.
C5_ListeningWhenStartResolves ==
    /\ [][(wired /\ ~isOpen /\ last'.op = "click fab") => (isOpen' /\ panelOpen')]_vars
    /\ [][(last'.op = "start resolved") =>
            (isListening' /\ micOn' /\ status' = "Listening...")]_vars
    /\ [][(last'.op = "call.started") =>
            (isListening' = isListening /\ isConnected' /\ status' = "Connected")]_vars

\* the panel is open, call.started came first, then start resolved
C5_Witness ==
    /\ wired /\ "start" \in caps
    /\ isOpen /\ panelOpen
    /\ last.op = "start resolved"
    /\ isListening /\ micOn /\ isConnected /\ status = "Listening..."

\* C6: a talk-toggle run while this._vapi is null changes neither
\* isListening nor anything else of the talk state, asks for no microphone
\* permission and calls no client method.
C6_ToggleWithoutClientIsNoOp ==
    [][(vapi = "null" /\ last'.op \in {"click mic", "_toggleMic"}) =>
         (UNCHANGED <<talkVars, status>> /\ last'.fx = "none")]_vars

\* _toggleMic was called on the element after the script failed to load
C6_Witness ==
    /\ last.op = "_toggleMic"
    /\ vapi = "null" /\ mounted /\ status = "SDK load failed"
    /\ ~isListening /\ Suspended = 0

IsBlank(t) == \A i \in 1..Len(t) : t[i] = " "
SendOps == {"click send", "keydown Enter", "_sendText"}

\* C7: a send with an empty or whitespace-only input appends no transcript
\* entry and does not call the client's sendText, in any lifecycle state; so
\* no blank text is ever in flight or in the transcript.
C7_BlankIsNeverSent ==
    /\ [][(last'.op \in SendOps /\ IsBlank(input)) =>
            (UNCHANGED <<transcript, pendingSends, input>> /\ last'.fx = "none")]_vars
    /\ [](\A i \in 1..Len(transcript) : ~IsBlank(transcript[i].text))
    /\ [](\A i \in 1..Len(pendingSends) : ~IsBlank(pendingSends[i]))

\* a whitespace-only input was sent by a click while the client could send
C7_Witness ==
    /\ last.op = "click send" /\ last.fx = "none"
    /\ wired /\ "sendText" \in caps
    /\ input # <<>> /\ IsBlank(input)
    /\ transcript = <<>> /\ pendingSends = <<>>

\* C8: the transcript holds one user entry per resolved sendText call: the
\* step of a resolution appends one entry and clears the input; a rejection,
\* a send without the capability, and the send call itself append nothing
\* and leave the input as it is.
C8_TranscriptCountsResolvedSends ==
    /\ [](Len(transcript) = nResolved)
    /\ [](\A i \in 1..Len(transcript) : transcript[i].role = "user")
    /\ [][(last'.op = "sendText resolved") =>
            (Len(transcript') = Len(transcript) + 1 /\ input' = <<>>)]_vars
    /\ [][(last'.op = "sendText rejected") =>
            (transcript' = transcript /\ input' = input)]_vars
    /\ [][(last'.op \in SendOps) => (transcript' = transcript /\ input' = input)]_vars
    /\ [][(last'.op \in SendOps /\ ~(vapi # "null" /\ "sendText" \in caps)) =>
            (pendingSends' = pendingSends /\ last'.fx = "none")]_vars

\* one send resolved, a later one was rejected and the input kept its text
C8_Witness ==
    /\ last.op = "sendText rejected"
    /\ Len(transcript) = 1 /\ nResolved = 1
    /\ input # <<>> /\ ~IsBlank(input)

NotFromFrame(d) == d = NoData \/ d.source # "NXL_IFRAME"

\* C9: the dispatch of a message whose source is not 'NXL_IFRAME' (the
\* loader's own 'NXL_HOST' broadcasts included) changes neither open, nor
\* the frame's 'nxl-open' class, nor the fab's pulse class, and posts nothing.
C9_ForeignMessagesIgnored ==
    [][(hostLast'.op = "message" /\ inbox # <<>> /\ NotFromFrame(Head(inbox))) =>
         (UNCHANGED <<hostOpen, frameClassOpen, fabPulse, lastPost>>
            /\ inbox' = Tail(inbox))]_vars

\* the loader's own 'close' broadcast reached its listener while the mount
\* was open again
C9_Witness ==
    /\ hostLast = [op |-> "message", data |-> Data("NXL_HOST", "close", FALSE)]
    /\ 1 \in built /\ hostOpen[1] /\ frameClassOpen[1]

\* C10: the dispatch of the frame's 'close' leaves a mount whose open is
\* false as it is (open false, frame class, pulse) and that mount posts
\* nothing; when no mount is open nothing at all is posted.
C10_CloseWhileClosedIsNoOp ==
    [][(hostLast'.op = "message" /\ inbox # <<>>
          /\ Head(inbox) = Data("NXL_IFRAME", "close", FALSE)) =>
         /\ \A m \in Mounts :
              ~hostOpen[m] =>
                 /\ ~hostOpen'[m]
                 /\ frameClassOpen'[m] = frameClassOpen[m]
                 /\ fabPulse'[m] = fabPulse[m]
                 /\ lastPost'[m] = lastPost[m]
         /\ (\A m \in Mounts : ~hostOpen[m]) => inbox' = Tail(inbox)]_vars

\* the frame's 'close' was dispatched to a mount that was never opened
C10_Witness ==
    /\ hostLast = [op |-> "message", data |-> Data("NXL_IFRAME", "close", FALSE)]
    /\ 1 \in built /\ ~hostOpen[1] /\ ~frameClassOpen[1] /\ lastPost[1] = "none"
    /\ inbox = <<>>

\* how a step of the loader may change the open flag of mount m
OpenChangedBy(m, ops) ==
    hostOpen'[m] # hostOpen[m] => hostLast'.op \in ops

\* C11 as stated: the open flag of a mount changes only in a click on its
\* fab or in the dispatch of the frame's 'close' while it is open; no other
\* operation of the loader, the handle's methods included, changes it.
C11_OnlyClickOrFrameClose ==
    [][\A m \in Mounts :
         /\ OpenChangedBy(m, {"click", "message"})
         /\ (hostOpen'[m] # hostOpen[m] /\ hostLast'.op = "message") =>
               (hostOpen[m] /\ hostLast'.data = Data("NXL_IFRAME", "close", FALSE))]_vars

\* C11 amended: the open flag of a mount changes only in a click on its fab,
\* in the dispatch of the frame's 'close' while it is open, in the handle's
\* open() while it is closed and in the handle's close() while it is open;
\* mounting, the handle's sendText and every other message leave it alone.
C11_OnlyClickCloseOrHandle ==
    [][\A m \in Mounts :
         /\ OpenChangedBy(m, {"click", "message", "handle.open", "handle.close"})
         /\ (hostOpen'[m] # hostOpen[m] /\ hostLast'.op = "message") =>
               (hostOpen[m] /\ hostLast'.data = Data("NXL_IFRAME", "close", FALSE))
         /\ (hostOpen'[m] # hostOpen[m] /\ hostLast'.op = "handle.open") => ~hostOpen[m]
         /\ (hostOpen'[m] # hostOpen[m] /\ hostLast'.op = "handle.close") => hostOpen[m]
         /\ (hostLast'.op = "handle.open" /\ hostOpen[m]) => hostOpen'[m]
         /\ (hostLast'.op = "handle.close" /\ ~hostOpen[m]) => ~hostOpen'[m]]_vars

\* the handle's open() was called on a mount that was open already, after a
\* click had opened it: it is still open and its last broadcast is that 'open'
C11_Witness ==
    /\ hostLast.op = "handle.open"
    /\ built = {1} /\ hostOpen[1] /\ lastPost[1] = "open"
    /\ Len(inbox) = 1

\* the message events a step of the loader found waiting and left waiting
Waiting == IF hostLast'.op = "message" THEN Tail(inbox) ELSE inbox
\* the 'NXL_HOST' messages a step of the loader added to the window's queue
Broadcast ==
    SelectSeq(SubSeq(inbox', Len(Waiting) + 1, Len(inbox')),
              LAMBDA d : d.source = "NXL_HOST")
Toggled == {m \in Mounts : hostOpen'[m] # hostOpen[m]}

\* C12: in every state the frame of a mount carries 'nxl-open' iff its open
\* is true, and open is true iff the mount's last broadcast is 'open' (none
\* yet: closed); a step broadcasts one 'NXL_HOST' message per mount whose
\* open it toggled and no other, of type 'open' when open became true and
\* 'close' when it became false, so a mount's broadcasts alternate open,
\* close, open, ... starting with 'open'.
C12_ToggleBroadcastsAndStyles ==
    /\ [](\A m \in Mounts :
            /\ frameClassOpen[m] = hostOpen[m]
            /\ hostOpen[m] = (lastPost[m] = "open")
            /\ (m \notin built => lastPost[m] = "none"))
    /\ [][/\ Len(Broadcast) = Cardinality(Toggled)
          /\ SubSeq(inbox', 1, Len(Waiting)) = Waiting
          /\ \A m \in Mounts :
                IF m \in Toggled
                  THEN /\ lastPost'[m] = (IF hostOpen'[m] THEN "open" ELSE "close")
                       /\ lastPost'[m] # lastPost[m]
                       /\ (lastPost[m] = "none" => lastPost'[m] = "open")
                       /\ frameClassOpen'[m] = hostOpen'[m]
                       /\ \E i \in DOMAIN Broadcast : Broadcast[i].type = lastPost'[m]
                  ELSE lastPost'[m] = lastPost[m]]_vars

\* a mount was opened by a click and closed by the frame's 'close': its
\* 'close' broadcast waits on the window and the frame lost 'nxl-open'
C12_Witness ==
    /\ hostLast = [op |-> "message", data |-> Data("NXL_IFRAME", "close", FALSE)]
    /\ built = {1} /\ ~hostOpen[1] /\ ~frameClassOpen[1] /\ lastPost[1] = "close"
    /\ inbox # <<>> /\ inbox[Len(inbox)] = Data("NXL_HOST", "close", FALSE)

\* the options a mountIframeWidget call was given that lack the mount point,
\* and those that have it but lack a key
WithoutMountPoint == {"undefined", "keys"}
WithoutSomeKey    == {"mount", "mount, publicKey", "mount, assistantId"}

\* C13: a mountIframeWidget call without a mount point raises and leaves
\* the page as it was: no fab, no frame, no message listener; a call with
\* the mount point but without publicKey or assistantId does not raise and
\* builds one more widget (fab, frame, listeners), closed and without a
\* broadcast.
C13_MountFailsFastOnlyWithoutMountPoint ==
    [][hostLast'.data.source = "opts" =>
         /\ hostLast'.data.type \in WithoutMountPoint =>
               /\ hostLast'.op = "mount raised"
               /\ UNCHANGED <<built, hostOpen, frameClassOpen, fabPulse, lastPost, inbox>>
         /\ hostLast'.data.type \in WithoutSomeKey =>
               /\ hostLast'.op = "mount warned"
               /\ Cardinality(built') = Cardinality(built) + 1
               /\ built \subseteq built'
               /\ \A m \in built' \ built :
                     ~hostOpen'[m] /\ ~frameClassOpen'[m] /\ ~fabPulse'[m] /\ lastPost'[m] = "none"
               /\ UNCHANGED <<hostOpen, frameClassOpen, fabPulse, lastPost, inbox>>]_vars

\* a second widget was mounted with the mount point and the public key only,
\* next to a first one that is open
C13_Witness ==
    /\ hostLast = [op |-> "mount warned", data |-> Data("opts", "mount, publicKey", FALSE)]
    /\ built = {1, 2} /\ hostOpen[1] /\ ~hostOpen[2] /\ ~frameClassOpen[2]

\* a step that ran _toggleMic from its first line
ToggleRan == last'.op = "_toggleMic" \/ (last'.op = "click mic" /\ wired)
StartCalls == {"start", "connectToAssistant"}

\* C14: when the permission is granted to a toggle of an element that is not
\* listening and the client has neither start nor connectToAssistant, no
\* client method is called, isListening stays false and the mic control
\* does not get the 'on' class.
C14_NoStartApiStaysUnlistening ==
    [][(last'.op = "getUserMedia resolved" /\ ~isListening
          /\ "start" \notin caps /\ "connectToAssistant" \notin caps) =>
         (last'.fx = "none" /\ ~isListening' /\ ~micOn')]_vars

\* C15: on the ready element whose client has start, a toggle of the
\* listening element ends with isListening false, whether the client has no
\* stop, or stop raises at once, or the promise of stop resolves or rejects.
C15_StopAlwaysUnlistens ==
    [][(wired /\ "start" \in caps) =>
         /\ (last'.op \in {"stop resolved", "stop rejected"}) => ~isListening'
         /\ (ToggleRan /\ isListening /\ pendStop' = pendStop) => ~isListening']_vars

\* C16: a denied permission request, a start (or connectToAssistant) call
\* that raises at once and one whose promise rejects each leave isListening
\* and the mic's 'on' class as they were (false when the element was not
\* listening), set the status to 'Mic blocked' and raise nothing; after a
\* denial no client method is called and no start is left in flight.
C16_DenialLeavesUnlistening ==
    [][/\ (last'.op = "getUserMedia rejected") =>
             /\ isListening' = isListening /\ micOn' = micOn
             /\ status' = "Mic blocked"
             /\ last'.fx = "none" /\ pendStart' = pendStart
             /\ ~last'.threw
       /\ (last'.op = "start rejected"
             \/ (last'.op = "getUserMedia resolved" /\ last'.fx \in StartCalls
                   /\ pendStart' = pendStart)) =>
             /\ isListening' = isListening /\ micOn' = micOn
             /\ status' = "Mic blocked"
             /\ ~last'.threw]_vars

\* the permission was denied to the toggle of a ready element that is not
\* listening and whose client has start
C16_Witness ==
    /\ last.op = "getUserMedia rejected"
    /\ wired /\ "start" \in caps
    /\ ~isListening /\ ~micOn /\ status = "Mic blocked" /\ Suspended = 0

\* C17: this._vapi is null while the script load is pending, and it is the
\* client only when _initVapiClient ran to its end: after an error raised by
\* the constructor, by an on(...) subscription or by the wiring it is null.
C17_HandleNullUnlessInitSucceeded ==
    /\ (~mounted \/ loadPending # "no") => vapi = "null"
    /\ vapi # "null" => wired

\* C18: on the ready element whose client has start, a click on the
\* microphone control while a toggle is suspended at the permission request
\* or at the start call begins no second start sequence, and no two start
\* calls are ever in flight.
C18_NoConcurrentStart ==
    /\ []((wired /\ "start" \in caps) => pendStart <= 1)
    /\ [][(wired /\ "start" \in caps /\ last'.op = "click mic" /\ pendPerm + pendStart > 0) =>
            (pendPerm' = pendPerm /\ last'.fx = "none")]_vars

\* C19: the step that handles call.ended leaves isListening and isConnected
\* false, and on the ready element whose client has start isListening stays
\* false until the microphone control is activated again, whatever start
\* call resolves in between.
C19_EndedStaysUnlistening ==
    /\ [][last'.op = "call.ended" => (~isListening' /\ ~isConnected')]_vars
    /\ []((sinceEnded /\ wired /\ "start" \in caps) => ~isListening)

\* C20: the mic control carries the 'on' class iff isListening is true.
C20_MicClassMirrorsListening ==
    micOn = isListening

\* call.ended was handled while a toggle of the listening element waited
\* for stop: the element no longer listens and the class is gone
C20_Witness ==
    /\ last.op = "call.ended"
    /\ pendStop > 0 /\ pendStart = 0 /\ pendPerm = 0
    /\ ~isListening /\ ~micOn /\ status = "Disconnected"

\* the mounts that are open
OpenMounts == {m \in Mounts : hostOpen[m]}

\* C21: each mount has its own open flag: a click on a fab and a call of a
\* handle's open() or close() toggle the flag of that mount at most and
\* leave the others' flag, frame class and last broadcast alone; the
\* dispatch of one 'close' of source 'NXL_IFRAME' runs every mount's
\* listener: each mount that is open becomes closed, loses 'nxl-open' and
\* broadcasts its own 'close', each mount that is closed is left as it is,
\* so as many 'close' broadcasts are queued as mounts were open.
C21_FrameCloseClosesEveryOpenMount ==
    /\ [][(hostLast'.op \in {"click", "handle.open", "handle.close"}) =>
            /\ Cardinality(Toggled) <= 1
            /\ (hostLast'.op = "click" => Cardinality(Toggled) = 1)
            /\ \A m \in Mounts \ Toggled :
                  /\ frameClassOpen'[m] = frameClassOpen[m]
                  /\ lastPost'[m] = lastPost[m]]_vars
    /\ [][(hostLast'.op = "message" /\ inbox # <<>>
             /\ Head(inbox) = Data("NXL_IFRAME", "close", FALSE)) =>
            /\ \A m \in Mounts :
                  IF hostOpen[m]
                    THEN ~hostOpen'[m] /\ ~frameClassOpen'[m] /\ lastPost'[m] = "close"
                    ELSE /\ ~hostOpen'[m]
                         /\ frameClassOpen'[m] = frameClassOpen[m]
                         /\ lastPost'[m] = lastPost[m]
            /\ fabPulse' = fabPulse
            /\ inbox' = Tail(inbox) \o
                         [i \in 1..Cardinality(OpenMounts) |-> Data("NXL_HOST", "close", FALSE)]]_vars

\* one 'close' of the frame was dispatched while two mounts were open: both
\* are closed and two 'close' broadcasts wait on the window
C21_Witness ==
    /\ hostLast = [op |-> "message", data |-> Data("NXL_IFRAME", "close", FALSE)]
    /\ built = {1, 2}
    /\ \A m \in {1, 2} : ~hostOpen[m] /\ ~frameClassOpen[m] /\ lastPost[m] = "close"
    /\ inbox = <<Data("NXL_HOST", "close", FALSE), Data("NXL_HOST", "close", FALSE)>>

====
